---- MODULE Spec2Model ----
(***************************************************************************)
(* Farm accounting bot: the Telegram webhook (api/telegram-webhook.py)     *)
(* and the data endpoint of the HTML app (api/data.py).                    *)
(*                                                                         *)
(* One POST is one update.  do_POST acknowledges it and starts a thread    *)
(* that runs _process.  _process is modelled in the steps that touch the   *)
(* Transactions sheet: the first read, the dispatch of the classified      *)
(* intent (with its append, delete or update) and, after an expense was    *)
(* appended, the second read with the expense alert and the receipt.       *)
(*                                                                         *)
(* /api/data (api/data.py), the handler of the HTML app, reads and appends  *)
(* to the same sheet; SpecApp runs it next to the webhook.  SpecThreads     *)
(* has two threads of _process alive at once.  SpecPure applies             *)
(* filter_by_period, compute_totals and fmt_amount on their own.            *)
(* SpecEdit edits a row of an earlier day while the lookup of the sheet id  *)
(* may fail.                                                                *)
(*                                                                         *)
(* Strings of the source are written in Latin letters: "dakhl" (income),   *)
(* "sarf" (expense), "mawashi" (the fixed category).  A text the bot only  *)
(* matches against (item, item_name, query) is a sequence of characters.   *)
(* A date is a day number; a month is 30 days, a week starts on a day      *)
(* divisible by 7.  A chat id is the sender's id (a private chat).         *)
(***************************************************************************)
EXTENDS Integers, Sequences, FiniteSets, TLC

VARIABLES
    sheet,          \* the Transactions sheet, rows 2.. (row 1 is the header)
    lastAlertMonth, \* _last_alert_month, -1 for ""
    today,          \* now_uae().date() as a day number
    meta,           \* the sheets of the spreadsheet: title and sheetId of each
    inventory,      \* the Inventory sheet, rows 2.. (row 1 is the header)
    users,          \* the allow-list USERS in force
    conc,           \* how many updates the platform lets be in flight at once
    inputs,         \* the updates posted, the answers of the model and the outcomes
                    \* of the sheet-id lookup, this run
    pc,             \* per thread slot: where the handling of its update stands
    upd,            \* per thread slot: the update posted
    ack,            \* per thread slot: the HTTP response written by do_POST
    transactions,   \* per thread slot: _process's local `transactions`
    raw,            \* per thread slot: what the model answered to ask_ai
    intent_data,    \* per thread slot: _process's local `intent_data`
    calls,          \* per thread slot: the store calls issued, in order
    aiCalls,        \* per thread slot: the classifier calls issued
    sent,           \* per thread slot: the chat messages sent, in order
    recorded,       \* history: the amounts recorded so far, until a first edit
    alerts,         \* history: how often the expense alert was broadcast
    written,        \* history: the last row handed to the store, with who asked
    app,            \* /api/data: the last response of its handler
    probe           \* a helper function applied on its own: input and result

env    == <<users, conc, inputs, meta>>
locals == <<pc, upd, ack, transactions, raw, intent_data, calls, aiCalls, sent>>
aside  == <<app, probe>>
vars   == <<sheet, lastAlertMonth, today, meta, inventory, users, conc, inputs,
            pc, upd, ack, transactions, raw, intent_data, calls, aiCalls, sent,
            recorded, alerts, written, app, probe>>

-----------------------------------------------------------------------------
(* Bounds *)

MaxRows == 2

MaxDay == 35    \* the days a run may start on, and the dates of the rows probed

Threads == {1, 2}

-----------------------------------------------------------------------------
(* Values *)

Missing    == "<missing>"       \* the key is absent: dict.get gives None
NotAString == "<number>"        \* a JSON number where a string is expected
NoText     == <<Missing>>       \* Missing, for a text kept as characters
NumberText == <<NotAString>>    \* NotAString, for a text kept as characters

DAKHL   == "dakhl"
SARF    == "sarf"
MAWASHI == "mawashi"

Num(n)    == [t |-> "num", n |-> n]
NoAmount  == [t |-> "missing", n |-> 0]   \* no "amount" key
BadAmount == [t |-> "text", n |-> 0]      \* "abc", null, a list: float() raises

Abs(n) == IF n < 0 THEN -n ELSE n

Khaled == "47329648"
Hamad  == "6894180427"

USERS ==
    [u \in {Khaled, Hamad} |->
        IF u = Khaled THEN [name |-> "Khaled", role |-> "admin"]
                      ELSE [name |-> "Hamad",  role |-> "admin"]]

\* USERS with one more entry whose role is not admin: the table the role
\* check of _process is written for.  The table of the source holds admins only.
Guest == "2002"

USERS_with_viewer ==
    [u \in DOMAIN USERS \cup {Guest} |->
        IF u \in DOMAIN USERS THEN USERS[u]
                              ELSE [name |-> "Guest", role |-> "viewer"]]

Stranger == "1001"    \* an id that is in no allow-list

MONTHLY_EXPENSE_ALERT == 3    \* EXPENSE_ALERT of the environment

-----------------------------------------------------------------------------
(* Updates *)

NoUpdate == [kind |-> "none", from |-> "", text |-> ""]

\* kind "bad": the body is not JSON.  kind "nomsg": JSON without a message.
\* text "": no text.  " ": white space only.  "/confirm", "/cancel", and
\* " /cancel" after white space: commands.
Updates(senders) ==
    {[kind |-> "bad", from |-> "", text |-> ""],
     [kind |-> "nomsg", from |-> "", text |-> ""]}
    \cup [kind : {"msg"}, from : senders,
          text : {"", " ", "/confirm", "/cancel", " /cancel", "msg"}]

text_strip_nothing(text) == text

\* msg.get("text", "").strip()
text_strip(text) ==
    CASE text = " "        -> ""
      [] text = " /cancel" -> "/cancel"
      [] OTHER             -> text

-----------------------------------------------------------------------------
(* Rows and aggregation *)

MonthOf(d)   == d \div 30

WeekStart_forward(d) == d + (d % 7)

\* today - timedelta(days=today.weekday())
WeekStart(d) == d - (d % 7)

Row(date, kind, item, amount, user, category, notes) ==
    [date |-> date, type |-> kind, item |-> item, amount |-> amount,
     user |-> user, category |-> category, notes |-> notes]

NoRow == Row(0, "", <<>>, Num(0), "", "", "")

parse_amount(val) == IF val.t = "num" THEN val.n ELSE 0

RECURSIVE SumAmounts(_, _)
SumAmounts(rows, kind) ==
    IF rows = <<>> THEN 0
    ELSE (IF Head(rows).type = kind THEN parse_amount(Head(rows).amount) ELSE 0)
         + SumAmounts(Tail(rows), kind)

Totals_added(income, expense) ==
    [income |-> income, expense |-> expense, net |-> income + expense]

Totals(income, expense) ==
    [income |-> income, expense |-> expense, net |-> income - expense]

compute_totals(rows) == Totals(SumAmounts(rows, DAKHL), SumAmounts(rows, SARF))

filter_by_period(trs, period) ==
    CASE period = "all"        -> trs
      [] period = "today"      -> SelectSeq(trs, LAMBDA r : r.date = today)
      [] period = "this_week"  -> SelectSeq(trs, LAMBDA r : r.date >= WeekStart(today))
      [] period = "this_month" -> SelectSeq(trs, LAMBDA r : MonthOf(r.date) = MonthOf(today))
      [] period = "last_month" -> SelectSeq(trs, LAMBDA r : MonthOf(r.date) = MonthOf(today) - 1)
      [] OTHER                 -> trs

Reverse(s) == [i \in 1..Len(s) |-> s[Len(s) + 1 - i]]

\* s[:n]
Slice(s, n) ==
    IF n >= 0 THEN SubSeq(s, 1, IF n < Len(s) THEN n ELSE Len(s))
    ELSE SubSeq(s, 1, IF Len(s) + n > 0 THEN Len(s) + n ELSE 0)

\* int(intent_data.get("limit") or d), d when that raises
limit_of(l, d) == IF l.t = "num" /\ l.n # 0 THEN l.n ELSE d

\* fmt_amount raises ValueError on a cell that is not a number.
fmt_amount_raises(val) == val.t # "num"

AnyAmountRaises(rows) == \E i \in 1..Len(rows) : fmt_amount_raises(rows[i].amount)

-----------------------------------------------------------------------------
(* Texts: item names, search words *)

lower(s) ==
    [i \in 1..Len(s) |->
        CASE s[i] = "Q" -> "q"
          [] s[i] = "Z" -> "z"
          [] OTHER      -> s[i]]

RECURSIVE lstrip(_)
lstrip(s) == IF s # <<>> /\ Head(s) = " " THEN lstrip(Tail(s)) ELSE s

RECURSIVE rstrip(_)
rstrip(s) ==
    IF s # <<>> /\ s[Len(s)] = " " THEN rstrip(SubSeq(s, 1, Len(s) - 1)) ELSE s

strip(s) == rstrip(lstrip(s))

\* needle in hay
Contains(hay, needle) ==
    \E i \in 0..(Len(hay) - Len(needle)) : SubSeq(hay, i + 1, i + Len(needle)) = needle

-----------------------------------------------------------------------------
(* The classifier: what the model may answer, and what ask_ai makes of it *)

\* A JSON object of the model, key by key; Missing, NoText, NoAmount: no such key.
Base ==
    [intent |-> Missing, type |-> Missing, item |-> NoText, amount |-> NoAmount,
     category |-> Missing, notes |-> Missing, date |-> Missing,
     action |-> Missing, target |-> Missing, item_name |-> NoText,
     new_amount |-> NoAmount, new_item |-> NoText, new_type |-> Missing,
     new_category |-> Missing, new_notes |-> Missing,
     period |-> Missing, show |-> Missing, filter |-> Missing,
     limit |-> NoAmount, period_a |-> Missing, period_b |-> Missing,
     query |-> NoText, reply |-> Missing]

Tx(kind, item, amount) ==
    [Base EXCEPT !.intent = "transaction", !.type = kind, !.item = item,
                 !.amount = amount]

Ed(action, target, name, amount) ==
    [Base EXCEPT !.intent = "edit", !.action = action, !.target = target,
                 !.item_name = name, !.new_amount = amount]

Objects ==
    \* transactions the validation accepts
    {Tx(k, <<"q">>, Num(n)) : k \in {DAKHL, SARF}, n \in {-1, 2}}
    \cup {[Tx(DAKHL, <<"q">>, Num(2)) EXCEPT !.category = "other", !.notes = "null"]}
    \* transactions with a field missing or out of range
    \cup {Tx(Missing, <<"q">>, Num(2)), Tx("other", <<"q">>, Num(2)),
          Tx("", <<"q">>, Num(2)),
          Tx(SARF, NoText, Num(2)), Tx(SARF, <<>>, Num(2)),
          Tx(DAKHL, <<"q">>, NoAmount), Tx(DAKHL, <<"q">>, BadAmount),
          Tx("other", <<"q">>, BadAmount)}
    \* edits
    \cup {Ed(Missing, "last", NoText, NoAmount), Ed("other", "last", NoText, NoAmount),
          Ed("delete", Missing, NoText, NoAmount), Ed("delete", "item", <<"Q">>, NoAmount),
          Ed("delete", "item", <<"z">>, NoAmount), Ed("delete", "item", NoText, NoAmount),
          Ed("update", "last", NoText, NoAmount), Ed("update", "last", NoText, Num(-2)),
          Ed("update", "item", <<"q">>, Num(2)), Ed("update", "last", NoText, BadAmount),
          [Ed("update", "last", NoText, NoAmount)
              EXCEPT !.new_type = "other", !.new_category = "other"],
          \* a name of white space only
          Ed("delete", "item", <<" ">>, NoAmount)}
    \* reports and the other read-only intents
    \cup {[Base EXCEPT !.intent = "report", !.period = p, !.show = s] :
             p \in {"all"}, s \in {Missing, "income", "expense", "net"}}
    \cup {[Base EXCEPT !.intent = "report", !.period = "this_month"]}
    \* a report that carries an amount and a reply of the model's own
    \cup {[Base EXCEPT !.intent = "report", !.period = "all", !.amount = Num(2),
                       !.reply = "hi"]}
    \cup {[Base EXCEPT !.intent = "details", !.filter = DAKHL, !.limit = Num(1)],
          [Base EXCEPT !.intent = "comparison", !.period_a = "last_month"],
          [Base EXCEPT !.intent = "text_search", !.query = <<"Q">>, !.limit = Num(1)]}
    \cup {[Base EXCEPT !.intent = i] :
             i \in {"details", "comparison", "balance", "weekly_summary",
                    "monthly_summary", "export"}}
    \cup {[Base EXCEPT !.intent = "date_search", !.date = d] :
             d \in {Missing, "today", "yesterday", "garbage", NotAString}}
    \cup {[Base EXCEPT !.intent = "text_search", !.query = q] :
             q \in {NoText, <<"Q">>, <<"z">>, <<"w">>, NumberText}}
    \cup {[Base EXCEPT !.intent = "conversation", !.reply = r] :
             r \in {Missing, "", "hi"}}
    \* no tag, an unknown tag
    \cup {Base, [Base EXCEPT !.intent = "dance"]}

\* k "error": the call to the model raised.  "garbage": no JSON in the answer.
\* "nondict": JSON that is no object.  "json": an object.  "wrapped": an object
\* inside prose or a code fence.
NoOutput == [k |-> "none", d |-> Base]

AiOutputs ==
    {[k |-> x, d |-> Base] : x \in {"error", "garbage", "nondict"}}
    \cup {[k |-> "json", d |-> o] : o \in Objects}
    \cup {[k |-> "wrapped", d |-> [Base EXCEPT !.intent = "balance"]]}

\* abs(float(x)) of a number
coerce_amount_keep_sign(a) == Num(a.n)

coerce_amount(a) == Num(Abs(a.n))

Falsy(v)     == v \in {Missing, ""}      \* not data.get(k), a string or none
FalsyText(v) == v \in {NoText, <<>>}      \* the same, for a text kept as characters

_fallback(msg) == [Base EXCEPT !.intent = "conversation", !.reply = msg]

Returns(d) == [raised |-> FALSE, d |-> d]
Raises     == [raised |-> TRUE, d |-> Base]

_validate_ai_unchecked(data) == Returns(data)

_validate_edit_any_action(data) == Returns(data)

\* _validate_ai for the edit intent.
_validate_edit(data) ==
    IF data.action \notin {"delete", "update"}
    THEN Returns(_fallback("unknown edit")) ELSE Returns(data)

_validate_ai(data) ==
    CASE data.intent = "transaction" ->
            IF Falsy(data.type) \/ FalsyText(data.item)
            THEN Returns(_fallback("incomplete"))
            ELSE IF data.amount.t = "missing" THEN Raises    \* KeyError
            ELSE IF data.amount.t # "num" THEN Returns(_fallback("bad amount"))
            ELSE IF data.type \notin {DAKHL, SARF}
            THEN Returns(_fallback("unknown type"))
            ELSE Returns([data EXCEPT
                    !.amount   = coerce_amount(data.amount),
                    !.category = MAWASHI,
                    !.notes    = IF Falsy(data.notes) \/ data.notes \in {"null", "none"}
                                 THEN "" ELSE data.notes])
      [] data.intent = "edit" -> _validate_edit(data)
      [] data.intent = "text_search" ->
            IF FalsyText(data.query)
            THEN Returns(_fallback("no query")) ELSE Returns(data)
      [] data.intent = "date_search" ->
            IF Falsy(data.date)
            THEN Returns(_fallback("no date")) ELSE Returns(data)
      [] data.intent \in {"report", "details", "comparison", "export", "balance",
                          "weekly_summary", "monthly_summary", "conversation"} ->
            Returns(data)
      [] OTHER -> Returns(_fallback("not understood"))

_parse_ai(out) ==
    CASE out.k = "garbage" -> Returns(_fallback("parse failed"))
      [] out.k = "nondict" -> Raises    \* data.get: AttributeError
      [] OTHER             -> _validate_ai(out.d)

\* The except branch of ask_ai: what was raised becomes the fallback.
OrFallback(r) == IF r.raised THEN _fallback("ai error") ELSE r.d

ask_ai(out) ==
    IF out.k = "error" THEN _fallback("ai error") ELSE OrFallback(_parse_ai(out))

-----------------------------------------------------------------------------
(* Chat messages *)

NoTotals == [income |-> {}, expense |-> {}, net |-> {}]

\* The totals a text shows: each is a set, empty when the text leaves it out.
AllTotals(tots) ==
    [income |-> {tots.income}, expense |-> {tots.expense}, net |-> {tots.net}]

Body(kind) == [kind |-> kind, tot |-> NoTotals, tot2 |-> NoTotals, row |-> NoRow]

BodyT(kind, tot) == [Body(kind) EXCEPT !.tot = tot]

BodyR(kind, row) == [Body(kind) EXCEPT !.row = row]

Message(chat_id, body) ==
    [to |-> chat_id, kind |-> body.kind, tot |-> body.tot, tot2 |-> body.tot2,
     row |-> body.row]

\* A builder returns a text, returns None (no text to send), or raises.
Text(body) == [raised |-> FALSE, out |-> <<body>>]
None       == [raised |-> FALSE, out |-> <<>>]
Raised     == [raised |-> TRUE, out |-> <<>>]

-----------------------------------------------------------------------------
(* Report builders *)

\* The text of build_report for the totals of the period.
report_text(tots, show) ==
    CASE show = "income"  -> BodyT("report", [NoTotals EXCEPT !.income = {tots.income}])
      [] show = "expense" -> BodyT("report", [NoTotals EXCEPT !.expense = {tots.expense}])
      [] OTHER            -> BodyT("report", AllTotals(tots))

build_report(trs, period, show) ==
    report_text(compute_totals(filter_by_period(trs, period)), show)

\* The text of build_details for the rows it lists.
details_text(rows) ==
    IF rows = <<>> THEN Text(Body("details none"))
    ELSE IF AnyAmountRaises(rows) THEN Raised
    ELSE Text(Body("details"))

\* The rows of one direction, or all of them.
filter_by_type(rows, tx_filter) ==
    IF tx_filter \in {DAKHL, SARF}
    THEN SelectSeq(rows, LAMBDA r : r.type = tx_filter) ELSE rows

build_details(trs, period, tx_filter, limit) ==
    details_text(Slice(Reverse(filter_by_type(filter_by_period(trs, period), tx_filter)),
                       limit))

build_comparison(trs, pa, pb) ==
    [BodyT("comparison", AllTotals(compute_totals(filter_by_period(trs, pa))))
        EXCEPT !.tot2 = AllTotals(compute_totals(filter_by_period(trs, pb)))]

build_balance(trs) == BodyT("balance", AllTotals(compute_totals(trs)))

\* The text of a search for the rows it found: the lines, then the totals.
search_text(rows, listed, none, kind) ==
    IF rows = <<>> THEN Text(Body(none))
    ELSE IF AnyAmountRaises(listed) THEN Raised
    ELSE Text(BodyT(kind, AllTotals(compute_totals(rows))))

rows_of_date(trs, target) == SelectSeq(trs, LAMBDA r : r.date = target)

date_search_for(rows) == search_text(rows, rows, "date none", "date_search")

build_date_search(trs, date_str) ==
    IF date_str = NotAString THEN Raised          \* date_str[:10]: TypeError
    ELSE IF date_str \notin {"today", "yesterday"} THEN Text(Body("bad date"))
    ELSE date_search_for(rows_of_date(trs, IF date_str = "today" THEN today
                                                                     ELSE today - 1))

\* The characters of a notes or category cell.
Chars(cell) ==
    IF cell = MAWASHI THEN <<"m", "a", "w", "a", "s", "h", "i">> ELSE <<>>

\* needle in the item, the notes or the category of the row
search_matches(trs, needle) ==
    SelectSeq(trs, LAMBDA r : \/ Contains(lower(r.item), needle)
                              \/ Contains(lower(Chars(r.notes)), needle)
                              \/ Contains(lower(Chars(r.category)), needle))

\* The totals of the rows listed, not of all the rows found.
text_search_listing_of_listed(matches, limit) ==
    search_text(Slice(Reverse(matches), limit), Slice(Reverse(matches), limit),
                "search none", "text_search")

\* The lines are those of the last `limit` rows found, the totals are those
\* of all the rows found.
text_search_listing(matches, limit) ==
    search_text(matches, Slice(Reverse(matches), limit), "search none", "text_search")

text_search_for(trs, needle, limit) ==
    IF needle = <<>> THEN Text(Body("no query"))
    ELSE text_search_listing(search_matches(trs, needle), limit)

build_text_search(trs, query, limit) ==
    IF query = NumberText THEN Raised             \* query.strip: AttributeError
    ELSE text_search_for(trs, lower(strip(query)), limit)

-----------------------------------------------------------------------------
(* The sheet *)

\* A row of the sheet with fewer than four cells; load_transactions skips it.
BlankRow == NoRow

WithIndex(r, i) ==
    [row_index |-> i, date |-> r.date, type |-> r.type, item |-> r.item,
     amount |-> r.amount, user |-> r.user, category |-> r.category,
     notes |-> r.notes]

RECURSIVE Indexed(_, _)
Indexed(rows, i) ==
    IF rows = <<>> THEN <<>>
    ELSE (IF Head(rows) = BlankRow THEN <<>> ELSE <<WithIndex(Head(rows), i)>>)
         \o Indexed(Tail(rows), i + 1)

\* ok: the read went through.  A failed read is logged and gives [].
load_transactions(rows, ok) == IF ok THEN Indexed(rows, 2) ELSE <<>>

append_transaction(rows, kind, item, amount, user, category, notes) ==
    Append(rows, Row(today, kind, item, amount, user, category, notes))

SHEET_NAME  == "Transactions"
S_INVENTORY == "Inventory"

\* meta.get("sheets") of a spreadsheet whose two sheets have the sheetIds t, i.
Workbook(t, i) ==
    <<[title |-> SHEET_NAME, sheetId |-> t], [title |-> S_INVENTORY, sheetId |-> i]>>

\* The first sheet made has sheetId 0; it may be either sheet, or be gone.
Workbooks == {Workbook(0, 7), Workbook(5, 0), Workbook(5, 7)}

\* The items of the Inventory sheet.
Stock == <<"hay", "salt">>

\* found: spreadsheets().get went through.  An exception is logged and, like
\* a spreadsheet with no sheet of that title, falls through to `return 0`.
get_sheet_id(sheets, found) ==
    IF found /\ \E i \in 1..Len(sheets) : sheets[i].title = SHEET_NAME
    THEN sheets[CHOOSE i \in 1..Len(sheets) :
                    /\ sheets[i].title = SHEET_NAME
                    /\ \A j \in 1..(i - 1) : sheets[j].title # SHEET_NAME].sheetId
    ELSE 0

\* The title of the sheet batchUpdate finds for sheet_id, "" if there is none
\* (batchUpdate then raises).
sheet_titled(sheets, sheet_id) ==
    IF \E i \in 1..Len(sheets) : sheets[i].sheetId = sheet_id
    THEN sheets[CHOOSE i \in 1..Len(sheets) : sheets[i].sheetId = sheet_id].title
    ELSE ""

\* deleteDimension ROWS [row_index - 1, row_index): sheet row row_index, which
\* is data row row_index - 1.
delete_row(rows, row_index) ==
    LET j == row_index - 1 IN
    IF j \in 1..Len(rows)
    THEN SubSeq(rows, 1, j - 1) \o SubSeq(rows, j + 1, Len(rows))
    ELSE rows

RECURSIVE Padded(_, _)
Padded(rows, n) == IF Len(rows) >= n THEN rows ELSE Padded(Append(rows, BlankRow), n)

\* values.update of A{row_index}:G{row_index}: all seven cells are written.
update_row(rows, row_index, kind, item, amount, user, category, notes) ==
    LET j == row_index - 1 IN
    [Padded(rows, j) EXCEPT ![j] = Row(today, kind, item, amount, user, category, notes)]

Call(op, ok) == [op |-> op, ok |-> ok]

Mutating == {"append", "delete", "update"}

-----------------------------------------------------------------------------
(* Edit *)

\* The row found, as a sequence of one, or <<>> for None.
LastOf(rows) == IF rows # <<>> THEN <<rows[Len(rows)]>> ELSE <<>>

rows_named(trs, needle) ==
    SelectSeq(trs, LAMBDA r : Contains(lower(strip(r.item)), needle))

_find_row(trs, target, item_name) ==
    IF target = "last" THEN LastOf(trs)
    ELSE IF FalsyText(item_name) THEN <<>>
    ELSE LastOf(rows_named(trs, lower(strip(item_name))))

Default(v, d) == IF v = Missing THEN d ELSE v     \* dict.get(k, d)

OrElse(new, old)     == IF Falsy(new) THEN old ELSE new
OrElseText(new, old) == IF FalsyText(new) THEN old ELSE new

\* What handle_edit does, before its store call: op "none" with the text it
\* returns, or the store call with the texts for its two outcomes.
NoEdit ==
    [op |-> "none", row_index |-> 0, new |-> NoRow,
     ok |-> Body("none"), failed |-> Body("none"), raised |-> FALSE]

\* `not new_amount`: the key is absent, or the number is 0.
falsy_amount(a) == a.t = "missing" \/ (a.t = "num" /\ a.n = 0)

\* The seven cells handle_edit writes over the row.
edited_row(row, data, user_name) ==
    Row(today,
        OrElse(data.new_type, row.type),
        OrElseText(data.new_item, row.item),
        IF falsy_amount(data.new_amount) THEN Num(parse_amount(row.amount))
                                         ELSE Num(Abs(data.new_amount.n)),
        user_name,
        OrElse(data.new_category, row.category),
        OrElse(data.new_notes, row.notes))

edit_delete(row) ==
    IF fmt_amount_raises(row.amount)
    THEN [NoEdit EXCEPT !.op = "delete", !.row_index = row.row_index,
                        !.raised = TRUE, !.failed = Body("delete failed")]
    ELSE [NoEdit EXCEPT !.op = "delete", !.row_index = row.row_index,
                        !.ok = BodyR("deleted",
                                     Row(row.date, row.type, row.item, row.amount,
                                         row.user, row.category, row.notes)),
                        !.failed = Body("delete failed")]

edit_update(row_index, new) ==
    [NoEdit EXCEPT !.op = "update", !.row_index = row_index, !.new = new,
                   !.ok = BodyR("updated", new), !.failed = Body("update failed")]

\* handle_edit once _find_row has answered `found`.
edit_found(found, target, action, data, user_name) ==
    IF found = <<>>
    THEN [NoEdit EXCEPT !.ok = IF target = "last" THEN Body("no rows")
                                                   ELSE Body("not found")]
    ELSE IF action = "delete" THEN edit_delete(found[1])
    ELSE IF ~falsy_amount(data.new_amount) /\ data.new_amount.t # "num"
    THEN [NoEdit EXCEPT !.ok = Body("bad new amount")]
    ELSE edit_update(found[1].row_index, edited_row(found[1], data, user_name))

edit_of(trs, target, action, data, user_name) ==
    edit_found(_find_row(trs, target, OrElseText(data.item_name, <<>>)),
               target, action, data, user_name)

handle_edit(trs, data, user_name) ==
    edit_of(trs, Default(data.target, "last"), Default(data.action, "delete"),
            data, user_name)

-----------------------------------------------------------------------------
(* Reply builder *)

\* The effect of build_reply: the sheet it leaves, the store calls it issued,
\* the messages it sent itself, what it returns, and whether the expense
\* alert and the receipt are still to come.
Effect(rows, issued, sends, result, more) ==
    [sheet |-> rows, calls |-> issued, sends |-> sends, raised |-> result.raised,
     reply |-> result.out, more |-> more, rows |-> <<>>, deleted |-> 0]

\* The effect of a store call that went through with the row it carried.
Wrote(effect, row) == [effect EXCEPT !.rows = <<row>>]

\* The effect of a deleteDimension that went through for sheet row row_index.
Deleted(effect, row_index) == [effect EXCEPT !.deleted = row_index]

receipt(data, user_name) ==
    BodyR("receipt", Row(today, data.type, data.item, data.amount, user_name,
                         Default(data.category, MAWASHI), Default(data.notes, "")))

build_reply_transaction_retry(data, user_name, rows, ok) ==
    LET saved == append_transaction(rows, data.type, data.item, data.amount,
                     user_name, Default(data.category, MAWASHI), Default(data.notes, ""))
    IN  IF ok
        THEN Effect(saved, <<Call("append", TRUE)>>, <<>>,
                    Text(receipt(data, user_name)), FALSE)
        ELSE Effect(saved, <<Call("append", FALSE), Call("append", TRUE)>>, <<>>,
                    Text(receipt(data, user_name)), FALSE)

\* build_reply once the append went through and left the sheet `saved`.
transaction_saved(saved, data, user_name) ==
    Wrote(IF data.type = SARF
          THEN Effect(saved, <<Call("append", TRUE)>>, <<>>, None, TRUE)
          ELSE Effect(saved, <<Call("append", TRUE)>>, <<>>,
                      Text(receipt(data, user_name)), FALSE),
          saved[Len(saved)])

\* build_reply for a transaction.  ok: the append went through.
build_reply_transaction(data, user_name, rows, ok) ==
    IF ~ok
    THEN Effect(rows, <<Call("append", FALSE)>>, <<>>, Text(Body("save error")), FALSE)
    ELSE transaction_saved(
             append_transaction(rows, data.type, data.item, data.amount, user_name,
                                Default(data.category, MAWASHI), Default(data.notes, "")),
             data, user_name)

\* build_reply for an edit: the store call handle_edit issues and its text.
build_reply_edit(e, rows, ok) ==
    CASE e.op = "none" -> Effect(rows, <<>>, <<>>, Text(e.ok), FALSE)
      [] e.op = "delete" ->
            IF ok
            THEN Deleted(Effect(delete_row(rows, e.row_index), <<Call("delete", TRUE)>>,
                                <<>>, IF e.raised THEN Raised ELSE Text(e.ok), FALSE),
                         e.row_index)
            ELSE Effect(rows, <<Call("delete", FALSE)>>, <<>>, Text(e.failed), FALSE)
      [] OTHER ->
            IF ok
            THEN Wrote(Effect(update_row(rows, e.row_index, e.new.type, e.new.item,
                                         e.new.amount, e.new.user, e.new.category,
                                         e.new.notes),
                              <<Call("update", TRUE)>>, <<>>, Text(e.ok), FALSE),
                       e.new)
            ELSE Effect(rows, <<Call("update", FALSE)>>, <<>>, Text(e.failed), FALSE)

\* ok: whether the store call of this intent, if it issues one, goes through.
build_reply(data, trs, user_name, rows, ok) ==
    CASE data.intent = "transaction" ->
            build_reply_transaction(data, user_name, rows, ok)
      [] data.intent = "report" ->
            Effect(rows, <<>>, <<>>,
                   Text(build_report(trs, Default(data.period, "all"),
                                     Default(data.show, "all"))), FALSE)
      [] data.intent = "details" ->
            Effect(rows, <<>>, <<>>,
                   build_details(trs, Default(data.period, "all"),
                                 Default(data.filter, "all"), limit_of(data.limit, 10)),
                   FALSE)
      [] data.intent = "comparison" ->
            Effect(rows, <<>>, <<>>,
                   Text(build_comparison(trs, Default(data.period_a, "this_month"),
                                         Default(data.period_b, "last_month"))), FALSE)
      [] data.intent = "weekly_summary" ->
            Effect(rows, <<>>, <<>>, Text(build_report(trs, "this_week", "all")), FALSE)
      [] data.intent = "monthly_summary" ->
            Effect(rows, <<>>, <<>>, Text(build_report(trs, "this_month", "all")), FALSE)
      [] data.intent = "balance" ->
            Effect(rows, <<>>, <<>>, Text(build_balance(trs)), FALSE)
      [] data.intent = "date_search" ->
            Effect(rows, <<>>, <<>>,
                   build_date_search(trs, Default(data.date, "today")), FALSE)
      [] data.intent = "text_search" ->
            Effect(rows, <<>>, <<>>,
                   build_text_search(trs, OrElseText(data.query, <<>>),
                                     limit_of(data.limit, 20)), FALSE)
      [] data.intent = "export" ->
            \* handle_export sends the notice and starts the export thread
            Effect(rows, <<>>, <<Body("export notice")>>, None, FALSE)
      [] data.intent = "edit" ->
            build_reply_edit(handle_edit(trs, data, user_name), rows, ok)
      [] data.intent = "conversation" ->
            \* an empty reply is no reply: `if reply:` sends nothing
            Effect(rows, <<>>, <<>>,
                   IF data.reply = "" THEN None ELSE Text(Body("conversation")), FALSE)
      [] OTHER -> Effect(rows, <<>>, <<>>, Text(Body("not understood")), FALSE)

-----------------------------------------------------------------------------
(* Alert *)

RECURSIVE SeqOf(_)
SeqOf(S) == IF S = {} THEN <<>>
            ELSE LET x == CHOOSE y \in S : TRUE IN <<x>> \o SeqOf(S \ {x})

Admins(us) == {u \in DOMAIN us : us[u].role = "admin"}

broadcast_admins(us, body) ==
    LET ids == SeqOf(Admins(us)) IN [i \in 1..Len(ids) |-> Message(ids[i], body)]

\* Whether check_expense_alert raises the alert.
expense_alert_due(trs, last) ==
    /\ compute_totals(filter_by_period(trs, "this_month")).expense >= MONTHLY_EXPENSE_ALERT
    /\ MonthOf(today) # last

-----------------------------------------------------------------------------
(* The webhook *)

NoResponse == [status |-> 0, body |-> ""]

_ok == [status |-> 200, body |-> "OK"]

do_POST_response_400(u) ==
    IF u.kind = "bad" THEN [status |-> 400, body |-> "Bad Request"] ELSE _ok

\* What do_POST answers to an update.
do_POST_response(u) == _ok

InFlight == {t \in Threads : pc[t] \notin {"idle", "done"}}

FreeSlot(t) ==
    /\ pc[t] \in {"idle", "done"}
    /\ \A s \in Threads : pc[s] \in {"idle", "done"} => t <= s

IsCommand_never(text) == FALSE

IsCommand(text) == text \in {"/confirm", "/cancel"}   \* text.startswith("/")

Authorized_anyone(us, user_id) == TRUE

Authorized(us, user_id) == user_id \in DOMAIN us       \* USERS.get(user_id)

NoAppResponse == [op |-> "none", status |-> 0, income |-> 0, expense |-> 0,
                  profit |-> 0, notified |-> {}]

NoProbe == [f |-> "none"]

NothingWritten == [by |-> "none", from |-> "", row |-> NoRow]

\* The history after build_reply (writer "bot") or /api/data (writer "app")
\* handed `rows` to the store in a call that went through, for `asker`.
Written(old, writer, asker, rows) ==
    IF rows = <<>> THEN old
    ELSE [by |-> writer, from |-> asker, row |-> rows[Len(rows)]]

NothingRecorded == [income |-> 0, expense |-> 0, edited |-> FALSE]

\* The history after build_reply issued `issued` for the intent `data`.
Recorded(old, issued, data) ==
    IF \E i \in 1..Len(issued) : issued[i].op \in {"delete", "update"} /\ issued[i].ok
    THEN [income |-> 0, expense |-> 0, edited |-> TRUE]
    ELSE IF old.edited \/ issued # <<Call("append", TRUE)>> THEN old
    ELSE IF data.type = DAKHL
    THEN [old EXCEPT !.income = @ + parse_amount(data.amount)]
    ELSE IF data.type = SARF
    THEN [old EXCEPT !.expense = @ + parse_amount(data.amount)]
    ELSE old

Init ==
    /\ sheet = <<>>
    /\ lastAlertMonth = -1
    /\ today = 0
    /\ meta = Workbook(0, 7)
    /\ inventory = Stock
    /\ users = USERS
    /\ conc = 1
    /\ inputs = [updates |-> Updates({Khaled, Stranger}), answers |-> AiOutputs,
                 lookups |-> {TRUE}]
    /\ pc = [t \in Threads |-> "idle"]
    /\ upd = [t \in Threads |-> NoUpdate]
    /\ ack = [t \in Threads |-> NoResponse]
    /\ transactions = [t \in Threads |-> <<>>]
    /\ raw = [t \in Threads |-> NoOutput]
    /\ intent_data = [t \in Threads |-> Base]
    /\ calls = [t \in Threads |-> <<>>]
    /\ aiCalls = [t \in Threads |-> 0]
    /\ sent = [t \in Threads |-> <<>>]
    /\ recorded = NothingRecorded
    /\ alerts = 0
    /\ written = NothingWritten
    /\ app = NoAppResponse
    /\ probe = NoProbe

\* do_POST: read the body, answer, start the thread (not for a bad body).
do_POST(t) ==
    /\ FreeSlot(t)
    /\ Cardinality(InFlight) < conc
    /\ \E u \in inputs.updates :
          /\ upd' = [upd EXCEPT ![t] = u]
          /\ ack' = [ack EXCEPT ![t] = do_POST_response(u)]
          /\ pc'  = [pc EXCEPT ![t] = IF u.kind = "bad" THEN "done" ELSE "acked"]
    /\ transactions' = [transactions EXCEPT ![t] = <<>>]
    /\ raw' = [raw EXCEPT ![t] = NoOutput]
    /\ intent_data' = [intent_data EXCEPT ![t] = Base]
    /\ calls' = [calls EXCEPT ![t] = <<>>]
    /\ aiCalls' = [aiCalls EXCEPT ![t] = 0]
    /\ sent' = [sent EXCEPT ![t] = <<>>]
    /\ UNCHANGED <<sheet, lastAlertMonth, today, env, inventory, recorded, alerts, written, aside>>

\* threading.Thread(target=_process).start()
thread_start(t) ==
    /\ pc[t] = "acked"
    /\ pc' = [pc EXCEPT ![t] = "process"]
    /\ UNCHANGED <<sheet, lastAlertMonth, today, env, inventory, upd, ack, transactions, raw,
                   intent_data, calls, aiCalls, sent, recorded, alerts, written, aside>>

\* _process up to the first read of the sheet.
\* svc: get_service went through.  rd: the read went through.
process_begin(t) ==
    /\ pc[t] = "process"
    /\ \E svc \in BOOLEAN, rd \in BOOLEAN :
          LET u == upd[t] IN
          IF u.kind # "msg" \/ text_strip(u.text) = "" \/ IsCommand(text_strip(u.text))
          THEN /\ pc' = [pc EXCEPT ![t] = "done"]
               /\ UNCHANGED <<transactions, calls, sent>>
          ELSE IF ~Authorized(users, u.from)
          THEN /\ pc' = [pc EXCEPT ![t] = "done"]
               /\ sent' = [sent EXCEPT ![t] = Append(@, Message(u.from, Body("not authorized")))]
               /\ UNCHANGED <<transactions, calls>>
          ELSE IF ~svc
          THEN /\ pc' = [pc EXCEPT ![t] = "done"]
               /\ sent' = [sent EXCEPT ![t] = Append(@, Message(u.from, Body("db error")))]
               /\ UNCHANGED <<transactions, calls>>
          ELSE /\ pc' = [pc EXCEPT ![t] = "loaded"]
               /\ transactions' = [transactions EXCEPT ![t] = load_transactions(sheet, rd)]
               /\ calls' = [calls EXCEPT ![t] = Append(@, Call("read", rd))]
               /\ UNCHANGED sent
    /\ UNCHANGED <<sheet, lastAlertMonth, today, env, inventory, upd, ack, raw, intent_data,
                   aiCalls, recorded, alerts, written, aside>>

\* The outcomes of the store call build_reply issues for the intent, if any.
StoreOutcomes(data) ==
    IF data.intent \in {"transaction", "edit"} THEN BOOLEAN ELSE {TRUE}

\* Whether _process turns the intent down for the sender's role.
role_denied(data, role) == data.intent \in {"transaction", "edit"} /\ role # "admin"

\* _process from ask_ai on: the role check, build_reply and the reply.
\* The messages of the texts, in order, to one chat.
Messages(chat, bodies) == [i \in 1..Len(bodies) |-> Message(chat, bodies[i])]

\* Whether the store call of the intent goes through: ok, and for a delete
\* the spreadsheet has a sheet with the id delete_row asks for.
goes_through(data, ok, sheets, sheet_id) ==
    ok /\ (  (data.intent = "edit" /\ Default(data.action, "delete") = "delete")
           => sheet_titled(sheets, sheet_id) # "")

\* A deleteDimension that went through on another sheet than SHEET_NAME.
elsewhere(e, sheets, sheet_id) ==
    e.deleted > 0 /\ sheet_titled(sheets, sheet_id) # SHEET_NAME

\* found: the lookup of get_sheet_id went through.
process_dispatch(t) ==
    /\ pc[t] = "loaded"
    /\ \E out \in inputs.answers : \E data \in {ask_ai(out)} :
       \E ok \in StoreOutcomes(data), found \in inputs.lookups :
       \E sheet_id \in {get_sheet_id(meta, found)} :
       \E e \in {build_reply(data, transactions[t], users[upd[t].from].name, sheet,
                             goes_through(data, ok, meta, sheet_id))} :
          /\ (data.intent = "transaction" => Len(sheet) < MaxRows)
          /\ raw' = [raw EXCEPT ![t] = out]
          /\ intent_data' = [intent_data EXCEPT ![t] = data]
          /\ aiCalls' = [aiCalls EXCEPT ![t] = @ + 1]
          /\ IF role_denied(data, users[upd[t].from].role)
             THEN /\ sent' = [sent EXCEPT ![t] =
                                 Append(@, Message(upd[t].from, Body("denied")))]
                  /\ pc' = [pc EXCEPT ![t] = "done"]
                  /\ transactions' = [transactions EXCEPT ![t] = <<>>]
                  /\ UNCHANGED <<sheet, inventory, calls, recorded, written>>
             ELSE /\ sheet' = IF elsewhere(e, meta, sheet_id) THEN sheet ELSE e.sheet
                  /\ inventory' = IF elsewhere(e, meta, sheet_id)
                                  THEN delete_row(inventory, e.deleted)
                                  ELSE inventory
                  /\ recorded' = Recorded(recorded, e.calls, data)
                  /\ written' = Written(written, "bot", upd[t].from, e.rows)
                  /\ calls' = [calls EXCEPT ![t] = @ \o e.calls]
                  /\ sent' = [sent EXCEPT ![t] =
                        @ \o Messages(upd[t].from, e.sends)
                          \o (IF e.raised THEN <<>> ELSE Messages(upd[t].from, e.reply))]
                  /\ pc' = [pc EXCEPT ![t] = IF e.more THEN "alert" ELSE "done"]
                  /\ transactions' = [transactions EXCEPT ![t] =
                                         IF e.more THEN @ ELSE <<>>]
    /\ UNCHANGED <<lastAlertMonth, today, env, upd, ack, alerts, aside>>

\* build_reply after an expense was appended: load_transactions for
\* check_expense_alert.
process_alert_read(t) ==
    /\ pc[t] = "alert"
    /\ \E rd \in BOOLEAN :
          /\ calls' = [calls EXCEPT ![t] = Append(@, Call("read", rd))]
          /\ transactions' = [transactions EXCEPT ![t] = load_transactions(sheet, rd)]
    /\ pc' = [pc EXCEPT ![t] = "alert check"]
    /\ UNCHANGED <<sheet, lastAlertMonth, today, env, inventory, upd, ack, raw, intent_data,
                   aiCalls, sent, recorded, alerts, written, aside>>

\* check_expense_alert: the test of the total against the limit and of the
\* month against _last_alert_month.  With no alert due, the receipt follows.
process_alert_check(t) ==
    /\ pc[t] = "alert check"
    /\ IF expense_alert_due(transactions[t], lastAlertMonth)
       THEN /\ pc' = [pc EXCEPT ![t] = "alert due"]
            /\ UNCHANGED <<sent, transactions>>
       ELSE /\ pc' = [pc EXCEPT ![t] = "done"]
            /\ sent' = [sent EXCEPT ![t] = Append(@,
                          Message(upd[t].from,
                                  receipt(intent_data[t], users[upd[t].from].name)))]
            /\ transactions' = [transactions EXCEPT ![t] = <<>>]
    /\ UNCHANGED <<sheet, lastAlertMonth, today, env, inventory, upd, ack, raw, intent_data,
                   calls, aiCalls, recorded, alerts, written, aside>>

\* check_expense_alert once the alert is due: _last_alert_month is set and
\* the alert broadcast; then the receipt.
process_alert_send(t) ==
    /\ pc[t] = "alert due"
    /\ lastAlertMonth' = MonthOf(today)
    /\ alerts' = alerts + 1
    /\ sent' = [sent EXCEPT ![t] =
          @ \o broadcast_admins(users, Body("alert"))
            \o <<Message(upd[t].from,
                         receipt(intent_data[t], users[upd[t].from].name))>>]
    /\ pc' = [pc EXCEPT ![t] = "done"]
    /\ transactions' = [transactions EXCEPT ![t] = <<>>]
    /\ UNCHANGED <<sheet, today, env, inventory, upd, ack, raw, intent_data, calls, aiCalls,
                   recorded, written, aside>>

Next ==
    \E t \in Threads :
        \/ do_POST(t)
        \/ thread_start(t)
        \/ process_begin(t)
        \/ process_dispatch(t)
        \/ process_alert_read(t)
        \/ process_alert_check(t)
        \/ process_alert_send(t)

Spec == Init /\ [][Next]_vars

\* The same program with USERS_with_viewer for its allow-list.
InitRoles ==
    /\ sheet = <<>>
    /\ lastAlertMonth = -1
    /\ today = 0
    /\ meta = Workbook(0, 7)
    /\ inventory = Stock
    /\ users = USERS_with_viewer
    /\ conc = 1
    /\ inputs = [updates |-> Updates({Khaled, Guest, Stranger}), answers |-> AiOutputs,
                 lookups |-> {TRUE}]
    /\ pc = [t \in Threads |-> "idle"]
    /\ upd = [t \in Threads |-> NoUpdate]
    /\ ack = [t \in Threads |-> NoResponse]
    /\ transactions = [t \in Threads |-> <<>>]
    /\ raw = [t \in Threads |-> NoOutput]
    /\ intent_data = [t \in Threads |-> Base]
    /\ calls = [t \in Threads |-> <<>>]
    /\ aiCalls = [t \in Threads |-> 0]
    /\ sent = [t \in Threads |-> <<>>]
    /\ recorded = NothingRecorded
    /\ alerts = 0
    /\ written = NothingWritten
    /\ app = NoAppResponse
    /\ probe = NoProbe

SpecRoles == InitRoles /\ [][Next]_vars

-----------------------------------------------------------------------------
(* /api/data (api/data.py): the HTML app reads and writes the same sheet.    *)
(* Its columns are A=date B=type C=item D=category E=amount F=user, where the *)
(* bot has A=date B=type C=item D=amount E=user F=category G=notes.          *)

\* The characters of a number in a cell or a message.
Numeral(n) == ToString(n)

Numerals == -9..9

\* float(x) of the text of a cell: the number it spells; BadAmount: it raises.
float_of(cell) ==
    IF \E n \in Numerals : Numeral(n) = cell
    THEN Num(CHOOSE n \in Numerals : Numeral(n) = cell)
    ELSE BadAmount

\* The text of a cell that was given an amount: a number or the string "abc".
cell_of(a) == IF a.t = "num" THEN Numeral(a.n) ELSE "abc"

RECURSIVE Join(_)
Join(s) == IF s = <<>> THEN "" ELSE Head(s) \o Join(Tail(s))

\* fmt of a cell that holds a whole number or a text.
fmt(x) == IF x.t = "num" THEN x.n ELSE 0

\* The JSON body of a POST; json FALSE: the body is not JSON.
AppBody(kind, item, category, amount, user) ==
    [json |-> TRUE, type |-> kind, item |-> item, category |-> category,
     amount |-> amount, user |-> user]

AppBodies ==
    {[AppBody("", <<>>, Missing, NoAmount, Missing) EXCEPT !.json = FALSE],
     AppBody(Missing, <<"q">>, Missing, Num(2), Missing),
     AppBody(DAKHL, <<>>, Missing, Num(2), Missing),
     AppBody(DAKHL, <<"q">>, Missing, Num(0), Missing),
     AppBody(DAKHL, <<"q">>, Missing, Num(2), Missing),
     AppBody(SARF, <<"q">>, MAWASHI, Num(-2), "Khaled"),
     AppBody("other", <<"q">>, MAWASHI, Num(2), "Mallory"),
     AppBody(DAKHL, <<"q">>, MAWASHI, BadAmount, "Khaled")}

\* [now_str(), kind, item, category, amount, user], in the app's columns.
app_row(b) ==
    Row(today, b.type, b.item, b.amount, Default(b.user, "App"),
        IF Falsy(b.category) THEN Join(b.item) ELSE b.category, "")

\* append_row: the six cells land in A..F, where the bot has date, type,
\* item, amount, user and category.
append_row(rows, r) ==
    Append(rows, Row(r.date, r.type, r.item, float_of(r.category), cell_of(r.amount),
                     r.user, ""))

\* A row of the sheet as parse_transactions reads it: r[1] and fmt(r[4]).
parse_transaction(r) == [type |-> r.type, amount |-> fmt(float_of(r.user))]

\* Rows with fewer than five cells are skipped.
parse_transactions(rows) ==
    LET kept == SelectSeq(rows, LAMBDA r : r # BlankRow)
    IN  [i \in 1..Len(kept) |-> parse_transaction(kept[i])]

RECURSIVE sum_of(_, _)
sum_of(trs, kind) ==
    IF trs = <<>> THEN 0
    ELSE (IF Head(trs).type = kind THEN Head(trs).amount ELSE 0)
         + sum_of(Tail(trs), kind)

\* The "summary" of the GET response.
summary(income, expense) ==
    [income |-> income, expense |-> expense, profit |-> income - expense]

\* The chats _notify_telegram writes to.
_notify_telegram == {Khaled, Hamad}

\* handler._send
_send(op, code, sums, notified) ==
    [op |-> op, status |-> code, income |-> sums.income, expense |-> sums.expense,
     profit |-> sums.profit, notified |-> notified]

NoSummary == summary(0, 0)

\* data.py do_POST.  ok: sheets_svc and the append went through.
data_do_POST ==
    /\ \E b \in AppBodies, ok \in BOOLEAN :
          IF ~b.json \/ ~ok
          THEN /\ app' = _send("POST", 500, NoSummary, {})
               /\ UNCHANGED <<sheet, written>>
          ELSE IF Falsy(b.type) \/ FalsyText(b.item) \/ falsy_amount(b.amount)
          THEN /\ app' = _send("POST", 400, NoSummary, {})
               /\ UNCHANGED <<sheet, written>>
          ELSE /\ Len(sheet) < MaxRows
               /\ sheet' = append_row(sheet, app_row(b))
               /\ written' = Written(written, "app", "", <<app_row(b)>>)
               /\ app' = _send("POST", 200, NoSummary, _notify_telegram)
    /\ UNCHANGED <<lastAlertMonth, today, env, inventory, locals, recorded, alerts, probe>>

\* data.py do_GET.  ok: sheets_svc and the two reads went through.
data_do_GET ==
    /\ \E ok \in BOOLEAN : \E trs \in {parse_transactions(sheet)} :
          app' = IF ok THEN _send("GET", 200,
                                  summary(sum_of(trs, DAKHL), sum_of(trs, SARF)), {})
                       ELSE _send("GET", 500, NoSummary, {})
    /\ UNCHANGED <<sheet, lastAlertMonth, today, env, inventory, locals, recorded, alerts,
                   written, probe>>

\* The bot and the app on one sheet.  One admin writes; the model answers
\* with an expense, an income, edits of the last row, or a report.
InitApp ==
    /\ sheet = <<>>
    /\ lastAlertMonth = -1
    /\ today = 0
    /\ meta = Workbook(0, 7)
    /\ inventory = Stock
    /\ users = USERS
    /\ conc = 1
    /\ inputs = [updates |-> [kind : {"msg"}, from : {Khaled}, text : {"msg"}],
                 lookups |-> {TRUE},
                 answers |-> {[k |-> "json", d |-> o] : o \in
                     {Tx(SARF, <<"q">>, Num(2)), Tx(DAKHL, <<"q">>, Num(-1)),
                      Ed("update", "last", NoText, NoAmount),
                      Ed("update", "last", NoText, Num(-2)),
                      [Ed("update", "last", NoText, NoAmount)
                          EXCEPT !.new_type = "other", !.new_category = "other"],
                      [Base EXCEPT !.intent = "report", !.period = "all"]}}]
    /\ pc = [t \in Threads |-> "idle"]
    /\ upd = [t \in Threads |-> NoUpdate]
    /\ ack = [t \in Threads |-> NoResponse]
    /\ transactions = [t \in Threads |-> <<>>]
    /\ raw = [t \in Threads |-> NoOutput]
    /\ intent_data = [t \in Threads |-> Base]
    /\ calls = [t \in Threads |-> <<>>]
    /\ aiCalls = [t \in Threads |-> 0]
    /\ sent = [t \in Threads |-> <<>>]
    /\ recorded = NothingRecorded
    /\ alerts = 0
    /\ written = NothingWritten
    /\ app = NoAppResponse
    /\ probe = NoProbe

NextApp == Next \/ data_do_POST \/ data_do_GET

SpecApp == InitApp /\ [][NextApp]_vars

-----------------------------------------------------------------------------
(* The helpers on their own: filter_by_period, compute_totals, fmt_amount.    *)
(* A run applies one of them once, to inputs drawn from small sets.          *)

\* A float with at most three decimals is the number of its thousandths.
Digit(d) == <<"0", "1", "2", "3", "4", "5", "6", "7", "8", "9">>[d + 1]

RECURSIVE Digits(_)
Digits(n) == IF n < 10 THEN <<Digit(n)>> ELSE Digits(n \div 10) \o <<Digit(n % 10)>>

RECURSIVE Pad(_, _)
Pad(s, w) == IF Len(s) >= w THEN s ELSE Pad(<<"0">> \o s, w)

\* f"{n:,}"
RECURSIVE Grouped(_)
Grouped(n) ==
    IF n < 1000 THEN Digits(n)
    ELSE Grouped(n \div 1000) \o <<",">> \o Pad(Digits(n % 1000), 3)

\* f"{f:,.2f}" of f thousandths, f not half-way between two hundredths.
Fixed2(f) ==
    LET h == (f + 5) \div 10
    IN  Grouped(h \div 100) \o <<".">> \o Pad(Digits(h % 100), 2)

\* fmt_amount of the float f.
fmt_amount(f) == IF f % 1000 = 0 THEN Grouped(f \div 1000) ELSE Fixed2(f)

IsDigit(c) == c \in {Digit(d) : d \in 0..9}

DigitVal(c) == CHOOSE d \in 0..9 : Digit(d) = c

RECURSIVE ValueOf(_)
ValueOf(s) ==
    IF s = <<>> THEN 0
    ELSE 10 * ValueOf(SubSeq(s, 1, Len(s) - 1)) + DigitVal(s[Len(s)])

Dots(s) == {i \in 1..Len(s) : s[i] = "."}

\* float(s) of a text of digits with at most one point, in thousandths;
\* raised: ValueError, as for any text with another character in it.
float_text(s) ==
    IF \/ \E i \in 1..Len(s) : ~IsDigit(s[i]) /\ s[i] # "."
       \/ Cardinality(Dots(s)) > 1
       \/ Len(s) = Cardinality(Dots(s))
    THEN [raised |-> TRUE, f |-> 0]
    ELSE LET p == IF Dots(s) = {} THEN Len(s) + 1 ELSE CHOOSE i \in Dots(s) : TRUE
         IN  [raised |-> FALSE,
              f |-> 1000 * ValueOf(SubSeq(s, 1, p - 1))
                    + ValueOf(SubSeq(SubSeq(s, p + 1, Len(s)) \o <<"0", "0", "0">>, 1, 3))]

\* fmt_amount of a text.
fmt_amount_text(s) ==
    IF float_text(s).raised THEN [raised |-> TRUE, out |-> <<>>]
    ELSE [raised |-> FALSE, out |-> fmt_amount(float_text(s).f)]

\* Amounts in thousandths: 0, 12.0, 12.5, 12.34, 12.346, 12.996, 999, 1000,
\* 1234.5, 1000000.
FmtInputs == {0, 12000, 12500, 12340, 12346, 12996, 999000, 1000000, 1234500,
              1000000000}

Periods == {"all", "today", "this_week", "this_month", "last_month", "other"}

RowAt(d) == Row(d, SARF, <<"q">>, Num(1), "Khaled", MAWASHI, "")

\* Rows as the bot and the app leave them, and a hand-made one.
PureRows ==
    {Row(0, DAKHL, <<"q">>, Num(1), "Khaled", MAWASHI, ""),
     Row(0, SARF, <<"q">>, Num(2), "Khaled", MAWASHI, ""),
     Row(0, "other", <<"q">>, Num(2), "Khaled", "other", ""),
     Row(0, DAKHL, <<"q">>, Num(-2), "Khaled", MAWASHI, ""),
     BlankRow}
    \cup {append_row(<<>>, app_row(b))[1] : b \in
            {AppBody(DAKHL, <<"q">>, Missing, Num(2), Missing),
             AppBody(SARF, <<"q">>, MAWASHI, Num(-2), "Khaled"),
             AppBody(DAKHL, <<"q">>, MAWASHI, BadAmount, "Khaled")}}

RECURSIVE Lists(_, _)
Lists(S, n) ==
    IF n = 0 THEN {<<>>}
    ELSE Lists(S, n - 1) \cup {Append(l, x) : l \in Lists(S, n - 1), x \in S}

\* A day and an empty sheet, or day 0 and a sheet of up to MaxRows rows.
InitPure ==
    /\ \/ today \in 0..MaxDay /\ sheet = <<>>
       \/ today = 0 /\ sheet \in Lists(PureRows, MaxRows)
    /\ meta = Workbook(0, 7)
    /\ inventory = Stock
    /\ lastAlertMonth = -1
    /\ users = USERS
    /\ conc = 1
    /\ inputs = [updates |-> {}, answers |-> {}, lookups |-> {TRUE}]
    /\ pc = [t \in Threads |-> "idle"]
    /\ upd = [t \in Threads |-> NoUpdate]
    /\ ack = [t \in Threads |-> NoResponse]
    /\ transactions = [t \in Threads |-> <<>>]
    /\ raw = [t \in Threads |-> NoOutput]
    /\ intent_data = [t \in Threads |-> Base]
    /\ calls = [t \in Threads |-> <<>>]
    /\ aiCalls = [t \in Threads |-> 0]
    /\ sent = [t \in Threads |-> <<>>]
    /\ recorded = NothingRecorded
    /\ alerts = 0
    /\ written = NothingWritten
    /\ app = NoAppResponse
    /\ probe = NoProbe

\* compute_totals(load_transactions(service))
apply_compute_totals ==
    /\ probe = NoProbe
    /\ probe' = [f |-> "compute_totals", rows |-> load_transactions(sheet, TRUE),
                 out |-> compute_totals(load_transactions(sheet, TRUE))]
    /\ UNCHANGED <<sheet, lastAlertMonth, today, env, inventory, locals, recorded, alerts,
                   written, app>>

\* filter_by_period of a row of some day and a row of today.
apply_filter_by_period ==
    /\ probe = NoProbe
    /\ \E d \in 0..MaxDay, period \in Periods :
          probe' = [f |-> "filter_by_period", rows |-> <<RowAt(d), RowAt(today)>>,
                    period |-> period,
                    out |-> filter_by_period(<<RowAt(d), RowAt(today)>>, period)]
    /\ UNCHANGED <<sheet, lastAlertMonth, today, env, inventory, locals, recorded, alerts,
                   written, app>>

\* fmt_amount of a float, and of the text that gives.
apply_fmt_amount ==
    /\ probe = NoProbe
    /\ \E f \in FmtInputs :
          probe' = [f |-> "fmt_amount", val |-> f, out |-> fmt_amount(f),
                    again |-> fmt_amount_text(fmt_amount(f))]
    /\ UNCHANGED <<sheet, lastAlertMonth, today, env, inventory, locals, recorded, alerts,
                   written, app>>

NextPure ==
    \/ apply_compute_totals
    \/ apply_filter_by_period
    \/ apply_fmt_amount
    \/ data_do_GET

SpecPure == InitPure /\ [][NextPure]_vars

\* The same program with two updates in flight at once: do_POST starts one
\* thread per update and does not wait for it.  An admin writes; the model
\* answers with an expense, an income, or the delete of the last row.
InitThreads ==
    /\ sheet = <<>>
    /\ lastAlertMonth = -1
    /\ today = 0
    /\ meta = Workbook(0, 7)
    /\ inventory = Stock
    /\ users = USERS
    /\ conc = 2
    /\ inputs = [updates |-> [kind : {"msg"}, from : {Khaled}, text : {"msg"}],
                 lookups |-> {TRUE},
                 answers |-> {[k |-> "json", d |-> o] : o \in
                     {Tx(SARF, <<"q">>, Num(2)), Tx(DAKHL, <<"q">>, Num(-1)),
                      Ed("delete", "last", NoText, NoAmount)}}]
    /\ pc = [t \in Threads |-> "idle"]
    /\ upd = [t \in Threads |-> NoUpdate]
    /\ ack = [t \in Threads |-> NoResponse]
    /\ transactions = [t \in Threads |-> <<>>]
    /\ raw = [t \in Threads |-> NoOutput]
    /\ intent_data = [t \in Threads |-> Base]
    /\ calls = [t \in Threads |-> <<>>]
    /\ aiCalls = [t \in Threads |-> 0]
    /\ sent = [t \in Threads |-> <<>>]
    /\ recorded = NothingRecorded
    /\ alerts = 0
    /\ written = NothingWritten
    /\ app = NoAppResponse
    /\ probe = NoProbe

SpecThreads == InitThreads /\ [][Next]_vars

\* The same program a day after Hamad recorded an expense, with Khaled asking
\* for an expense, for the delete of the last row or for a new amount in it.
\* The lookup of the sheet id may fail, and the sheet with sheetId 0 is the
\* Transactions sheet, the Inventory sheet, or neither.
InitEdit ==
    /\ sheet = <<Row(0, SARF, <<"q">>, Num(2), USERS[Hamad].name, MAWASHI, "")>>
    /\ lastAlertMonth = -1
    /\ today = 1
    /\ meta \in Workbooks
    /\ inventory = Stock
    /\ users = USERS
    /\ conc = 1
    /\ inputs = [updates |-> [kind : {"msg"}, from : {Khaled}, text : {"msg"}],
                 lookups |-> BOOLEAN,
                 answers |-> {[k |-> "json", d |-> o] : o \in
                     {Tx(SARF, <<"q">>, Num(2)),
                      Ed("delete", "last", NoText, NoAmount),
                      Ed("update", "last", NoText, Num(1))}}]
    /\ pc = [t \in Threads |-> "idle"]
    /\ upd = [t \in Threads |-> NoUpdate]
    /\ ack = [t \in Threads |-> NoResponse]
    /\ transactions = [t \in Threads |-> <<>>]
    /\ raw = [t \in Threads |-> NoOutput]
    /\ intent_data = [t \in Threads |-> Base]
    /\ calls = [t \in Threads |-> <<>>]
    /\ aiCalls = [t \in Threads |-> 0]
    /\ sent = [t \in Threads |-> <<>>]
    /\ recorded = NothingRecorded
    /\ alerts = 0
    /\ written = NothingWritten
    /\ app = NoAppResponse
    /\ probe = NoProbe

SpecEdit == InitEdit /\ [][Next]_vars

-----------------------------------------------------------------------------
(* Properties *)

Handled(t) == pc[t] = "done"

\* Where a thread stands between the append of an expense and its receipt.
AlertSteps == {"alert", "alert check", "alert due"}

Sends(t, kind) == \E i \in 1..Len(sent[t]) : sent[t][i].kind = kind

Issued(t, op) == \E i \in 1..Len(calls[t]) : calls[t][i].op = op

Succeeded(t, op) == \E i \in 1..Len(calls[t]) : calls[t][i] = Call(op, TRUE)

MutatingCalls(t) == {i \in 1..Len(calls[t]) : calls[t][i].op \in Mutating}

Only(t, kind) == sent[t] = <<Message(upd[t].from, Body(kind))>>

\* The model answered with a JSON object.
Answered(t) == raw[t].k \in {"json", "wrapped"}

LastRow == sheet[Len(sheet)]

\* C1: an update from a sender outside USERS causes no store call and no
\* classifier call; the one message it can cause is the "not authorized" reply,
\* and a plain text from such a sender gets exactly that reply.
C1_UnknownSenderTouchesNothing ==
    \A t \in Threads :
        (upd[t].kind = "msg" /\ upd[t].from \notin DOMAIN USERS) =>
            /\ calls[t] = <<>>
            /\ aiCalls[t] = 0
            /\ Len(sent[t]) <= 1
            /\ \A i \in 1..Len(sent[t]) :
                  sent[t][i] = Message(upd[t].from, Body("not authorized"))
            /\ (Handled(t) /\ upd[t].text = "msg" => Len(sent[t]) = 1)

C1_Witness ==
    \E t \in Threads :
        /\ Handled(t) /\ upd[t].from = Stranger /\ upd[t].text = "msg"
        /\ Only(t, "not authorized")
        /\ sheet # <<>>

\* C2: every POST, once do_POST has handled it, has the answer 200 "OK",
\* before the thread of _process starts and whatever happens in it.
C2_AlwaysAcknowledged ==
    \A t \in Threads : pc[t] # "idle" => ack[t] = [status |-> 200, body |-> "OK"]

C2_Witness ==
    \E t \in Threads :
        /\ Handled(t)
        /\ calls[t] = <<Call("read", FALSE), Call("append", FALSE)>>
        /\ ack[t] = [status |-> 200, body |-> "OK"]

\* The JSON object lacks a field its intent tag requires.
LacksRequired(d) ==
    \/ d.intent = "transaction"
          /\ (d.type = Missing \/ d.item = NoText \/ d.amount = NoAmount)
    \/ d.intent = "edit" /\ d.action = Missing
    \/ d.intent = "text_search" /\ d.query = NoText
    \/ d.intent = "date_search" /\ d.date = Missing

Malformed(out) ==
    \/ out.k = "garbage"
    \/ out.k \in {"json", "wrapped"} /\ LacksRequired(out.d)

\* C3: when the model's answer is no JSON, or JSON lacking a field its tag
\* requires, ask_ai gives the conversation fallback, the handling issues no
\* mutating store call, and it ends with the fallback text as its one reply.
C3_MalformedAnswerFallsBack ==
    \A t \in Threads :
        Malformed(raw[t]) =>
            /\ intent_data[t].intent = "conversation"
            /\ MutatingCalls(t) = {}
            /\ pc[t] \notin AlertSteps
            /\ (Handled(t) => Only(t, "conversation"))

C3_Witness ==
    \E t \in Threads :
        /\ Handled(t)
        /\ raw[t].k = "json" /\ raw[t].d.intent = "transaction"
        /\ raw[t].d.amount = NoAmount /\ raw[t].d.type = DAKHL
        /\ intent_data[t].intent = "conversation"
        /\ sheet # <<>>

NegativeOrNotNumeric(a) == a.t = "text" \/ (a.t = "num" /\ a.n < 0)

C6_AppendOnlyOnConfirm ==
    \A t \in Threads :
        /\ Issued(t, "append") => upd[t].text = "/confirm"
        /\ upd[t].text = "/cancel" => calls[t] = <<>>

\* C6 as amended: a transaction intent of an admin is appended while the
\* message that carries it is handled, with no staging and no confirm; a
\* confirm or cancel command, from any sender, is ignored: no store call, no
\* classifier call, no message.
C6_AppendedAtOnce ==
    \A t \in Threads :
        /\ upd[t].text \in {"/confirm", "/cancel"}
           => (calls[t] = <<>> /\ aiCalls[t] = 0 /\ sent[t] = <<>>)
        /\ (pc[t] \in AlertSteps \cup {"done"} /\ intent_data[t].intent = "transaction"
              /\ users[upd[t].from].role = "admin")
           => /\ upd[t].text = "msg"
              /\ Issued(t, "append")
              /\ Succeeded(t, "append")
                 => LastRow = Row(today, intent_data[t].type, intent_data[t].item,
                                  intent_data[t].amount, users[upd[t].from].name,
                                  MAWASHI, intent_data[t].notes)

C6_Witness ==
    \E t \in Threads :
        /\ Handled(t) /\ upd[t].text = "msg"
        /\ intent_data[t].intent = "transaction"
        /\ calls[t] = <<Call("read", TRUE), Call("append", TRUE)>>
        /\ Len(sent[t]) = 1 /\ Sends(t, "receipt")

\* C7: one message issues at most one mutating store call; a mutating call
\* that failed is the last store call of the handling; a read after the first
\* one is the read that follows a successful append; and a failed append is
\* answered with the save-error text alone.
C7_OneMutationNoRetry ==
    \A t \in Threads :
        /\ Cardinality(MutatingCalls(t)) <= 1
        /\ \A i \in 1..Len(calls[t]) :
              (calls[t][i].op \in Mutating /\ ~calls[t][i].ok) => i = Len(calls[t])
        /\ \A i \in 2..Len(calls[t]) :
              calls[t][i].op = "read" => calls[t][i - 1] = Call("append", TRUE)
        /\ (Handled(t) /\ Issued(t, "append") /\ ~Succeeded(t, "append"))
           => Only(t, "save error")

C7_Witness ==
    \E t \in Threads :
        /\ Handled(t)
        /\ calls[t] = <<Call("read", TRUE), Call("append", FALSE)>>
        /\ Only(t, "save error")
        /\ sheet # <<>>

\* C8: when the first read of the sheet fails, the handling is over with the
\* "could not reach the database" text as its one message: no classifier
\* call and no further store call.
C8_FailedReadDropsMessage ==
    \A t \in Threads :
        (calls[t] # <<>> /\ calls[t][1] = Call("read", FALSE)) =>
            /\ Handled(t)
            /\ Only(t, "db error")
            /\ aiCalls[t] = 0
            /\ Len(calls[t]) = 1

\* C9: a handled plain text of an allow-listed sender has caused at least one
\* message to that sender's chat.
C9_AllowedSenderGetsAnAnswer ==
    \A t \in Threads :
        (Handled(t) /\ upd[t].kind = "msg" /\ upd[t].from \in DOMAIN USERS
            /\ upd[t].text = "msg")
        => \E i \in 1..Len(sent[t]) : sent[t][i].to = upd[t].from

\* C10: with nothing but recorded transactions since the empty table, a report
\* for the period "all" shows, where it shows them, the income recorded and
\* the income recorded minus the expense recorded.
C10_ReportShowsRecordedSums ==
    \A t \in Threads :
        (Handled(t) /\ ~recorded.edited /\ intent_data[t].intent = "report"
            /\ Default(intent_data[t].period, "all") = "all") =>
            \A i \in 1..Len(sent[t]) :
                sent[t][i].kind = "report" =>
                    /\ sent[t][i].tot.income \subseteq {recorded.income}
                    /\ sent[t][i].tot.net \subseteq {recorded.income - recorded.expense}

\* C17: an update with no message, with no text or white space only for its
\* text, or with a command for its text is ignored whoever sent it: no store
\* call, no classifier call, no message.
C17_EmptyOrCommandIgnored ==
    \A t \in Threads :
        (\/ upd[t].kind = "nomsg"
         \/ upd[t].kind = "msg" /\ upd[t].text \in {"", " ", "/confirm", "/cancel"})
        => (calls[t] = <<>> /\ aiCalls[t] = 0 /\ sent[t] = <<>>)

C17_Witness ==
    \E t \in Threads :
        /\ Handled(t) /\ upd[t].kind = "msg" /\ upd[t].from = Khaled
        /\ upd[t].text = " "
        /\ calls[t] = <<>> /\ aiCalls[t] = 0 /\ sent[t] = <<>>
        /\ sheet # <<>>

\* The totals the texts returned by build_reply show.
TotalsShown(e) == {<<e.reply[i].tot, e.reply[i].tot2>> : i \in 1..Len(e.reply)}

\* What each JSON object the model may answer with leads to, for the update
\* of thread t and the snapshot it loaded: the intent tag and the selector
\* fields of the object, the two periods of a comparison, the totals shown.
Replies(t) ==
    {[sel     |-> <<o.d.intent, o.d.period, o.d.show, o.d.filter, o.d.date, o.d.query>>,
      periods |-> <<o.d.period_a, o.d.period_b>>,
      tot     |-> UNION {TotalsShown(build_reply(ask_ai(o), transactions[t],
                                                 users[upd[t].from].name, sheet, ok))
                         : ok \in BOOLEAN}]
       : o \in {x \in inputs.answers : x.k \in {"json", "wrapped"}}}

\* Read-only intents whose text shows totals.
Reporting == {"report", "comparison", "weekly_summary", "monthly_summary",
              "balance", "date_search", "text_search"}

\* The totals sent are those build_reply computes from the rows of the sheet.
SentTotalsAreLocal(t) ==
    (Handled(t) /\ intent_data[t].intent \in Reporting /\ calls[t] # <<>>)
    => \A i \in 1..Len(sent[t]) :
          <<sent[t][i].tot, sent[t][i].tot2>>
             \in TotalsShown(build_reply(intent_data[t],
                                         load_transactions(sheet, calls[t][1].ok),
                                         users[upd[t].from].name, sheet, TRUE))

\* C11 as claimed: with the same snapshot, two answers of the model with the
\* same intent tag and the same period, show, filter, date and query lead to
\* replies with equal totals.
C11_TotalsFromSelectorsOnly ==
    \A t \in Threads :
        pc[t] = "loaded" =>
            \A a, b \in Replies(t) :
                a.sel = b.sel => \A x \in a.tot, y \in b.tot : x = y

\* C11 as amended: the totals sent are computed from the rows of the sheet;
\* with the same snapshot, two answers of the model with the same intent tag
\* and the same period, show, filter, date, query, period_a and period_b lead
\* to replies with equal totals, whatever else the answers carry.
C11_TotalsFromSelectorsAndComparisonPeriods ==
    \A t \in Threads :
        /\ SentTotalsAreLocal(t)
        /\ pc[t] = "loaded" =>
              \A a, b \in Replies(t) :
                  (a.sel = b.sel /\ a.periods = b.periods)
                  => \A x \in a.tot, y \in b.tot : x = y

\* A report whose answer carried an amount and a reply of the model's own was
\* sent with the income of the sheet, which is another number.
C11_Witness ==
    \E t \in Threads :
        /\ Handled(t) /\ raw[t].k = "json" /\ raw[t].d.intent = "report"
        /\ raw[t].d.amount = Num(2) /\ raw[t].d.reply = "hi"
        /\ Len(sent[t]) = 1
        /\ sent[t][1].tot = AllTotals(compute_totals(sheet))
        /\ sent[t][1].tot.income = {1}

\* C15: every row the bot hands to the store, in a record or in an edit-update,
\* carries the category "mawashi", whatever the model answered; so does every
\* row of a sheet only the bot has written to.
C15_BotRowsCarryFixedCategory ==
    /\ written.by = "bot" => written.row.category = MAWASHI
    /\ \A i \in 1..Len(sheet) : sheet[i] # BlankRow => sheet[i].category = MAWASHI

\* C16: the expense alert is broadcast at most once in a calendar month,
\* however many expenses are recorded in it and however the threads that
\* handle them interleave.  The day does not change in a run: all the
\* broadcasts counted are those of one month.
C16_AlertOncePerMonth == alerts <= 1

\* C12: every row this program hands to the store, in a record, an
\* edit-update or a POST of the app, has the direction "dakhl" or "sarf".
C12_DirectionIsOneOfTwo ==
    written.by # "none" => written.row.type \in {DAKHL, SARF}

\* C13: every row this program hands to the store, in a record, an
\* edit-update or a POST of the app, has a number >= 0 for its amount.
C13_AmountIsNonNegativeNumber ==
    written.by # "none" => (written.row.amount.t = "num" /\ written.row.amount.n >= 0)

\* C14: every row handed to the store was asked for by a user of the
\* allow-list and carries that user's display name for its user; nobody
\* outside the allow-list causes a row to be appended.
C14_RecordedByTheAllowedRequester ==
    written.by # "none" =>
        /\ written.from \in DOMAIN USERS
        /\ written.row.user = USERS[written.from].name

\* The sum of v[i] over the indices i in I.
RECURSIVE IndexSum(_, _)
IndexSum(I, v) ==
    IF I = {} THEN 0
    ELSE LET i == CHOOSE j \in I : TRUE IN v[i] + IndexSum(I \ {i}, v)

\* The rows of direction kind among rows.
OfKind(rows, kind) == {i \in 1..Len(rows) : rows[i].type = kind}

\* C18: for every list of rows, the income of compute_totals is the sum of
\* the amounts of the income rows, the expense the sum of the amounts of the
\* expense rows, and the net the income minus the expense; income and expense
\* are >= 0 when no amount is negative.  The same holds for income, expense
\* and profit in the summary of GET /api/data.
C18_NetIsIncomeMinusExpense ==
    /\ probe.f = "compute_totals" =>
          LET amounts == [i \in 1..Len(probe.rows) |-> parse_amount(probe.rows[i].amount)]
          IN  /\ probe.out.income = IndexSum(OfKind(probe.rows, DAKHL), amounts)
              /\ probe.out.expense = IndexSum(OfKind(probe.rows, SARF), amounts)
              /\ probe.out.net = probe.out.income - probe.out.expense
              /\ (\A i \in DOMAIN amounts : amounts[i] >= 0)
                 => (probe.out.income >= 0 /\ probe.out.expense >= 0)
    /\ (app.op = "GET" /\ app.status = 200) =>
          LET trs == parse_transactions(sheet)
              amounts == [i \in 1..Len(trs) |-> trs[i].amount]
          IN  /\ app.income = IndexSum(OfKind(trs, DAKHL), amounts)
              /\ app.expense = IndexSum(OfKind(trs, SARF), amounts)
              /\ app.profit = app.income - app.expense
              /\ (\A i \in DOMAIN amounts : amounts[i] >= 0)
                 => (app.income >= 0 /\ app.expense >= 0)

\* An expense of the bot and an income of the app on one sheet: the bot's
\* totals and the summary of the app were both computed.
C18_Witness ==
    /\ probe.f = "compute_totals" /\ Len(probe.rows) = 2
    /\ probe.out = [income |-> 0, expense |-> 2, net |-> -2]
    /\ app.op = "GET" /\ app.status = 200
    /\ app.income = 2 /\ app.expense = 0 /\ app.profit = 2

Member(rows, r) == \E i \in 1..Len(rows) : rows[i] = r

\* C19: whatever the day, a row dated today is returned for the periods
\* today, this_week, this_month and all; a row dated in another calendar month
\* is returned neither for today nor for this_month; and all returns the rows
\* as they are.
C19_PeriodFilter ==
    probe.f = "filter_by_period" =>
        /\ probe.period \in {"today", "this_week", "this_month", "all"}
           => Member(probe.out, RowAt(today))
        /\ \A i \in 1..Len(probe.rows) :
              (probe.rows[i].date \div 30 # today \div 30
                  /\ probe.period \in {"today", "this_month"})
              => ~Member(probe.out, probe.rows[i])
        /\ probe.period = "all" => probe.out = probe.rows

\* A day in the middle of a week that began in the month before: this_week
\* returns the row of that month and the row of today.
C19_Witness ==
    /\ probe.f = "filter_by_period" /\ probe.period = "this_week"
    /\ today = 30 /\ probe.rows[1].date = 29
    /\ probe.out = probe.rows

\* C20: fmt_amount gives a whole number without a decimal point, 12.0 as
\* "12" and 12.5 as "12.5", and fmt_amount of the text it gave is that text
\* again, for every amount >= 0.
C20_FormatIsIdempotent ==
    probe.f = "fmt_amount" =>
        /\ probe.val % 1000 = 0 => ~\E i \in 1..Len(probe.out) : probe.out[i] = "."
        /\ probe.val = 12000 => probe.out = <<"1", "2">>
        /\ probe.val = 12500 => probe.out = <<"1", "2", ".", "5">>
        /\ ~probe.again.raised
        /\ probe.again.out = probe.out

\* The tags _validate_ai returns as they are, with no field required.
PassedThrough == {"report", "details", "comparison", "export", "balance",
                  "weekly_summary", "monthly_summary", "conversation"}

Recognized == PassedThrough \cup {"transaction", "edit", "text_search", "date_search"}

Selected(trs, target, name) ==
    IF target = "last" THEN (IF trs = <<>> THEN <<>> ELSE <<trs[Len(trs)]>>)
    ELSE IF name = <<>> THEN <<>>
    ELSE LET found == {i \in 1..Len(trs) : Contains(lower(trs[i].item), lower(name))}
         IN  IF found = {} THEN <<>>
             ELSE <<trs[CHOOSE i \in found : \A j \in found : j <= i]>>

\* C22: for every edit the model may answer with and the snapshot loaded,
\* handle_edit goes on with the row Selected names, answers "no rows" or
\* "not found" and issues no store call when Selected names none; and an
\* edit that was answered that way has mutated nothing.
C22_EditTargetResolution ==
    \A t \in Threads :
        /\ pc[t] = "loaded" =>
              \A o \in inputs.answers : \A d \in {ask_ai(o)} :
                  d.intent = "edit" =>
                     \A e \in {handle_edit(transactions[t], d, users[upd[t].from].name)} :
                     \A sel \in {Selected(transactions[t], Default(d.target, "last"),
                                          OrElseText(d.item_name, <<>>))} :
                        /\ sel = <<>> => (e.op = "none" /\ e.ok.kind \in {"no rows", "not found"})
                        /\ sel # <<>> =>
                              /\ e.ok.kind \notin {"no rows", "not found"}
                              /\ e.op # "none" => e.row_index = sel[1].row_index
        /\ (Sends(t, "no rows") \/ Sends(t, "not found")) => MutatingCalls(t) = {}

\* rows without its i-th row.
Without(rows, i) == SubSeq(rows, 1, i - 1) \o SubSeq(rows, i + 1, Len(rows))

\* The last message of thread t after the step.
LastSent(t) == sent'[t][Len(sent'[t])]

\* C23: however two handlings interleave, the step in which a delete goes
\* through takes exactly one row out of the sheet, the row the reply of that
\* step reports as deleted (same item, amount and date), and leaves the other
\* rows as they were.
C23_DeleteRemovesReportedRow ==
    [][\A t \in Threads :
          (~Succeeded(t, "delete")
              /\ \E i \in 1..Len(calls'[t]) : calls'[t][i] = Call("delete", TRUE))
          => /\ sent'[t] # <<>> /\ LastSent(t).kind = "deleted"
             /\ \E i \in 1..Len(sheet) :
                   /\ sheet[i].item = LastSent(t).row.item
                   /\ sheet[i].amount = LastSent(t).row.amount
                   /\ sheet[i].date = LastSent(t).row.date
                   /\ sheet' = Without(sheet, i)]_vars

\* The store call op of thread t goes through in this step.
GoesThrough(t, op) ==
    ~Succeeded(t, op) /\ \E i \in 1..Len(calls'[t]) : calls'[t][i] = Call(op, TRUE)

\* C24: a delete takes rows out of the sheet named SHEET_NAME only: no step
\* removes a row of another sheet of the spreadsheet, and the step in which a
\* delete goes through takes its row out of the Transactions sheet.
C24_DeleteOnlyInNamedSheet ==
    [][/\ inventory' = inventory
       /\ \A t \in Threads :
             GoesThrough(t, "delete") => \E i \in 1..Len(sheet) : sheet' = Without(sheet, i)]_vars

\* C25: the step in which an update goes through rewrites one row of the
\* sheet and leaves the others as they were; in that row the date, the
\* recording user and the category stay, and the type, the item, the amount
\* and the notes stay unless the intent supplies a new value for them.
C25_UpdateChangesOnlySuppliedFields ==
    [][\A t \in Threads : \A d \in {intent_data'[t]} :
          GoesThrough(t, "update")
          => /\ Len(sheet') = Len(sheet)
             /\ \E i \in 1..Len(sheet) :
                   /\ \A j \in 1..Len(sheet) : j # i => sheet'[j] = sheet[j]
                   /\ sheet'[i].date = sheet[i].date
                   /\ sheet'[i].user = sheet[i].user
                   /\ sheet'[i].category = sheet[i].category
                   /\ Falsy(d.new_type) => sheet'[i].type = sheet[i].type
                   /\ FalsyText(d.new_item) => sheet'[i].item = sheet[i].item
                   /\ Falsy(d.new_notes) => sheet'[i].notes = sheet[i].notes
                   /\ falsy_amount(d.new_amount)
                         => parse_amount(sheet'[i].amount) = parse_amount(sheet[i].amount)]_vars

\* The last row of the sheet after the step.
Appended == sheet'[Len(sheet')]

\* C26: the bot and the app agree on the layout of a row.  The step in which
\* either appends a row leaves a row that load_transactions reads with the
\* direction, item, category, amount and user that were handed over, and
\* parse_transactions with that direction and amount; and the totals a GET of
\* the app answers with are the totals the bot computes from the same sheet.
C26_BothReadersAgree ==
    [][/\ Len(sheet') = Len(sheet) + 1
          => \A w \in {written'.row} :
                /\ Appended.type = w.type
                /\ Appended.item = w.item
                /\ Appended.category = w.category
                /\ Appended.user = w.user
                /\ parse_amount(Appended.amount) = parse_amount(w.amount)
                /\ parse_transaction(Appended).type = w.type
                /\ parse_transaction(Appended).amount = parse_amount(w.amount)
       /\ (app' # app /\ app'.op = "GET" /\ app'.status = 200)
          => \A tot \in {compute_totals(load_transactions(sheet, TRUE))} :
                /\ app'.income = tot.income
                /\ app'.expense = tot.expense
                /\ app'.profit = tot.net]_vars

====
